---------------------------- MODULE Spec2Model ----------------------------
(***************************************************************************)
(* A model of src/v2/script.js: the pricing calculator                     *)
(* (initPricingCalculator / calculate) and the article list                *)
(* (ARTICLES_DB / renderArticles).                                         *)
(*                                                                         *)
(* Numbers.  A JavaScript number is modelled as a record                   *)
(*    [k |-> "num", v |-> h]   the number h / 100 (h an integer),          *)
(*    [k |-> "NaN", v |-> 0]   NaN,                                        *)
(*    [k |-> "undefined", v |-> 0]  the value undefined,                   *)
(* so the prices are exact in hundredths.  The code computes in IEEE       *)
(* doubles: on every configuration of the rate tables the double differs   *)
(* from the exact decimal by less than 1e-9 (199 * 0.10 is                 *)
(* 19.900000000000002) while no total or discount lies within 0.02 of a    *)
(* rounding boundary, so Math.round gives the same integers.               *)
(*                                                                         *)
(* Text.  A string is a sequence of one-character strings, so that         *)
(* '$' + Math.round(total) is a concatenation and a formatted number can   *)
(* be inspected.                                                           *)
(***************************************************************************)
EXTENDS Integers, Sequences, FiniteSets, TLC

VARIABLES
    inputs,     \* the form: the four selects' values and the checked add-ons
    display,    \* textContent of the five display elements
    frame,      \* calculate()'s locals as they were when it last returned
    outcome,    \* how the last handler ended: "returned" or the name of an error
    lastEvent,  \* what ran calculate() last: "init", "change" or "click"
    first,      \* history: the first evaluation, and whether another
                \* configuration has been evaluated since
    pc,         \* stepwise evaluation: where each evaluation stands
    frames,     \* stepwise evaluation: each evaluation's locals
    raced,      \* history: the form changed while an evaluation was under way
    overlap,    \* history: two evaluations were under way at once
    rendered,   \* per article container, what renderArticles last put there
    carousel,   \* the testimonial carousel: the closure of initTestimonialCarousel
    stats       \* the hero statistics: the closure of initHeroStats

formVars == <<inputs, display, frame, outcome, lastEvent>>
stepVars == <<pc, frames, raced, overlap>>
vars == <<inputs, display, frame, outcome, lastEvent, first, pc, frames, raced,
          overlap, rendered, carousel, stats>>

----------------------------------------------------------------------------
(* JavaScript values *)

Num(h) == [k |-> "num", v |-> h]
NaN == [k |-> "NaN", v |-> 0]
Undefined == [k |-> "undefined", v |-> 0]

IsNum(a) == a.k = "num"

\* a + b on numbers; undefined converts to NaN
JsAdd(a, b) == IF IsNum(a) /\ IsNum(b) THEN Num(a.v + b.v) ELSE NaN

\* a - b
JsSub(a, b) == IF IsNum(a) /\ IsNum(b) THEN Num(a.v - b.v) ELSE NaN

\* a * b; exact here because one factor is always a whole number
JsMul(a, b) == IF IsNum(a) /\ IsNum(b) THEN Num((a.v * b.v) \div 100) ELSE NaN

\* a >= 0; false for NaN and undefined
JsGe0(a) == IsNum(a) /\ a.v >= 0

\* (mutant) Math.floor in place of Math.round
MathFloor(a) == IF IsNum(a) THEN Num((a.v \div 100) * 100) ELSE NaN

\* Math.round: the nearest integer, a half rounding up
MathRound(a) == IF IsNum(a) THEN Num(((a.v + 50) \div 100) * 100) ELSE NaN

Digit == <<"0", "1", "2", "3", "4", "5", "6", "7", "8", "9">>

RECURSIVE NatToText(_)
NatToText(n) ==
    IF n < 10 THEN <<Digit[n + 1]>>
    ELSE NatToText(n \div 10) \o <<Digit[(n % 10) + 1]>>

\* the digits after the decimal point of h hundredths, none for a whole number
FractionText(c) ==
    IF c = 0 THEN <<>>
    ELSE IF c % 10 = 0 THEN <<".", Digit[(c \div 10) + 1]>>
    ELSE <<".", Digit[(c \div 10) + 1], Digit[(c % 10) + 1]>>

\* Number-to-string conversion, as string concatenation applies it
ToText(a) ==
    IF a.k = "NaN" THEN <<"N", "a", "N">>
    ELSE IF a.k = "undefined"
        THEN <<"u", "n", "d", "e", "f", "i", "n", "e", "d">>
    ELSE LET m == IF a.v < 0 THEN -a.v ELSE a.v
         IN  (IF a.v < 0 THEN <<"-">> ELSE <<>>)
                 \o NatToText(m \div 100) \o FractionText(m % 100)

----------------------------------------------------------------------------
(* The rate tables: prices in dollars, discounts in hundredths (0.10 is 10) *)

basePrices ==
    ("studio" :> 69) @@ ("1bed" :> 79) @@ ("2bed" :> 89) @@
    ("3bed" :> 119) @@ ("4bed" :> 149) @@ ("5bed" :> 179)

bathroomPrices ==
    ("1" :> 0) @@ ("1.5" :> 15) @@ ("2" :> 30) @@
    ("2.5" :> 45) @@ ("3" :> 60) @@ ("4" :> 90)

serviceAdjustments == ("standard" :> 0) @@ ("deep" :> 80) @@ ("move" :> 180)

frequencyDiscounts ==
    ("one-time" :> 0) @@ ("weekly" :> 10) @@ ("biweekly" :> 5) @@ ("monthly" :> 3)

addOnPrices ==
    ("steamSanitize" :> 35) @@ ("laundry" :> 25) @@ ("windows" :> 30) @@
    ("fridge" :> 25) @@ ("pets" :> 15) @@ ("cabinets" :> 20)

\* Object.keys(addOnPrices), in insertion order
addOnKeys == <<"steamSanitize", "laundry", "windows", "fridge", "pets", "cabinets">>

\* table[key] of a table of dollar amounts; undefined for a missing key
PriceAt(table, key) ==
    IF key \in DOMAIN table THEN Num(table[key] * 100) ELSE Undefined

\* table[key] of the table of discount rates
RateAt(table, key) ==
    IF key \in DOMAIN table THEN Num(table[key]) ELSE Undefined


----------------------------------------------------------------------------
(* The form and the display *)

SelectFields == {"propertyType", "bathrooms", "serviceType", "frequency"}

AddOnInputs == {addOnKeys[i] : i \in DOMAIN addOnKeys}

\* the table a select's value is looked up in
TableOf(field) ==
    CASE field = "propertyType" -> basePrices
      [] field = "bathrooms" -> bathroomPrices
      [] field = "serviceType" -> serviceAdjustments
      [] field = "frequency" -> frequencyDiscounts

\* a value a select can hold that its table does not list (the page's
\* markup, not the script, decides the options)
UnlistedOption(field) ==
    CASE field = "propertyType" -> "mansion"
      [] field = "bathrooms" -> "5"
      [] field = "serviceType" -> "airbnb"
      [] field = "frequency" -> "quarterly"

TableOptions(field) == DOMAIN TableOf(field)

AllOptions(field) == TableOptions(field) \cup {UnlistedOption(field)}

\* the forms whose selects hold the values options lists for them
Forms(options, addOns) ==
    [propertyType : options["propertyType"], bathrooms : options["bathrooms"],
     serviceType : options["serviceType"], frequency : options["frequency"],
     checked : SUBSET addOns]

ValidConfig(inp) == \A f \in SelectFields : inp[f] \in TableOptions(f)

\* the locals of calculate() before any is assigned
NewFrame ==
    [total |-> Undefined, serviceAdj |-> Undefined, freqDiscount |-> Undefined,
     addOnsTotal |-> Undefined, discountable |-> Undefined, discount |-> Undefined]

\* the display elements before the script has written to them
BlankDisplay ==
    [total |-> <<>>, base |-> <<>>, service |-> <<>>, frequency |-> <<>>,
     addOns |-> <<>>]

----------------------------------------------------------------------------
(* calculate(), statement by statement *)

\* let total = basePrices[inputs.propertyType.value];
ReadBase(fr, inp) ==
    [fr EXCEPT !.total = PriceAt(basePrices, inp.propertyType)]

\* (mutant) total = bathroomPrices[...]: '=' for '+='
AddBathroomAssigns(fr, inp) ==
    [fr EXCEPT !.total = PriceAt(bathroomPrices, inp.bathrooms)]

\* total += bathroomPrices[inputs.bathrooms.value];
AddBathroom(fr, inp) ==
    [fr EXCEPT !.total = JsAdd(fr.total, PriceAt(bathroomPrices, inp.bathrooms))]

\* const serviceAdj = serviceAdjustments[inputs.serviceType.value];
ReadServiceAdj(fr, inp) ==
    [fr EXCEPT !.serviceAdj = PriceAt(serviceAdjustments, inp.serviceType)]

\* const freqDiscount = frequencyDiscounts[inputs.frequency.value];
ReadFreqDiscount(fr, inp) ==
    [fr EXCEPT !.freqDiscount = RateAt(frequencyDiscounts, inp.frequency)]

\* let addOnsTotal = 0;
ResetAddOns(fr) == [fr EXCEPT !.addOnsTotal = Num(0)]

\* one iteration of the forEach: if (inputs[key].checked) addOnsTotal += addOnPrices[key];
AddOnStep(fr, inp, key) ==
    IF key \in inp.checked
    THEN [fr EXCEPT !.addOnsTotal = JsAdd(fr.addOnsTotal, PriceAt(addOnPrices, key))]
    ELSE fr

\* the first n iterations of Object.keys(addOnPrices).forEach(...)
RECURSIVE SumAddOns(_, _, _)
SumAddOns(fr, inp, n) ==
    IF n = 0 THEN fr
    ELSE AddOnStep(SumAddOns(fr, inp, n - 1), inp, addOnKeys[n])

\* total += serviceAdj;
ApplyServiceAdj(fr) == [fr EXCEPT !.total = JsAdd(fr.total, fr.serviceAdj)]

\* (mutant) the discount base taken once the add-ons are in the total
DiscountableWithAddOns(fr) ==
    [fr EXCEPT !.discountable = JsAdd(fr.total, fr.addOnsTotal)]

\* const discountable = total;
Discountable(fr) == [fr EXCEPT !.discountable = fr.total]

\* const discount = discountable * freqDiscount;
ComputeDiscount(fr) ==
    [fr EXCEPT !.discount = JsMul(fr.discountable, fr.freqDiscount)]

\* (mutant) the add-ons discounted like the rest
AddAddOnsDiscounted(fr) ==
    [fr EXCEPT !.total =
        JsAdd(fr.total,
              JsSub(fr.addOnsTotal, JsMul(fr.addOnsTotal, fr.freqDiscount)))]

\* total += addOnsTotal;
AddAddOns(fr) == [fr EXCEPT !.total = JsAdd(fr.total, fr.addOnsTotal)]

\* (mutant) the operands of the subtraction swapped
ApplyDiscountReversed(fr) == [fr EXCEPT !.total = JsSub(fr.discount, fr.total)]

\* total = total - discount;
ApplyDiscount(fr) == [fr EXCEPT !.total = JsSub(fr.total, fr.discount)]

\* lines 319-329, which touch only locals
LocalSteps(fr) ==
    ApplyDiscount(AddAddOns(ComputeDiscount(Discountable(ApplyServiceAdj(fr)))))

\* display.total.textContent = '$' + Math.round(total);
ShowTotal(disp, fr) ==
    [disp EXCEPT !.total = <<"$">> \o ToText(MathRound(fr.total))]

\* (mutant) the base price shown without the bathroom surcharge
ShowBaseWithoutBathroom(disp, inp) ==
    [disp EXCEPT !.base = <<"$">> \o ToText(PriceAt(basePrices, inp.propertyType))]

\* display.base.textContent = '$' + (basePrices[...] + bathroomPrices[...]);
ShowBase(disp, inp) ==
    [disp EXCEPT !.base =
        <<"$">> \o ToText(JsAdd(PriceAt(basePrices, inp.propertyType),
                                PriceAt(bathroomPrices, inp.bathrooms)))]

\* display.service.textContent = (serviceAdj >= 0 ? '+' : '') + '$' + serviceAdj;
ShowService(disp, fr) ==
    [disp EXCEPT !.service =
        (IF JsGe0(fr.serviceAdj) THEN <<"+">> ELSE <<>>)
            \o <<"$">> \o ToText(fr.serviceAdj)]

\* display.frequency.textContent = '-' + '$' + Math.round(discount);
ShowFrequency(disp, fr) ==
    [disp EXCEPT !.frequency = <<"-">> \o <<"$">> \o ToText(MathRound(fr.discount))]

\* display.addOns.textContent = '$' + addOnsTotal;
ShowAddOns(disp, fr) ==
    [disp EXCEPT !.addOns = <<"$">> \o ToText(fr.addOnsTotal)]

\* the locals of calculate() when it reaches the display update
FrameOf(inp) ==
    LocalSteps(
        SumAddOns(
            ResetAddOns(
                ReadFreqDiscount(
                    ReadServiceAdj(AddBathroom(ReadBase(NewFrame, inp), inp), inp),
                    inp)),
            inp, Len(addOnKeys)))

\* calculate(): the locals it ends with and the display it leaves
calculate(inp, disp) ==
    LET fr == FrameOf(inp)
    IN  [frame |-> fr,
         display |->
            ShowAddOns(
                ShowFrequency(
                    ShowService(ShowBase(ShowTotal(disp, fr), inp), fr), fr), fr)]

----------------------------------------------------------------------------
(* The event wiring of initPricingCalculator *)

\* (mutant) the listeners registered on the selects only
ListenersOnSelects(input) ==
    IF input \in SelectFields THEN {"change", "click"} ELSE {}

\* the event types calculate is registered for on an input
Listeners(input) == {"change", "click"}

\* (mutant) addOnsTotal kept between calls instead of starting from 0
DispatchAccumulating(type, input, inp, page) ==
    LET r == calculate(inp, page.display)
        kept == IF IsNum(page.frame.addOnsTotal)
                THEN JsAdd(page.frame.addOnsTotal, r.frame.addOnsTotal)
                ELSE r.frame.addOnsTotal
        fr == [r.frame EXCEPT !.addOnsTotal = kept]
    IN  [display |-> ShowAddOns(r.display, fr), frame |-> fr,
         outcome |-> "returned", lastEvent |-> type]

\* the page after an event of the given type was dispatched on input
Dispatch(type, input, inp, page) ==
    IF type \in Listeners(input)
    THEN LET r == calculate(inp, page.display)
         IN  [display |-> r.display, frame |-> r.frame,
              outcome |-> "returned", lastEvent |-> type]
    ELSE page

Page == [display |-> display, frame |-> frame, outcome |-> outcome,
         lastEvent |-> lastEvent]

SetPage(page) ==
    \E p \in {page} :
        /\ display' = p.display
        /\ frame' = p.frame
        /\ outcome' = p.outcome
        /\ lastEvent' = p.lastEvent

\* the state initPricingCalculator leaves: the initial calculation has run
InitForm(forms) ==
    /\ inputs \in forms
    /\ \E r \in {calculate(inputs, BlankDisplay)} :
            /\ display = r.display
            /\ frame = r.frame
    /\ outcome = "returned"
    /\ lastEvent = "init"

\* the user picks another option of a select: a change event
ChangeSelect(field, value) ==
    /\ value # inputs[field]
    /\ inputs' = [inputs EXCEPT ![field] = value]
    /\ SetPage(Dispatch("change", field, inputs', Page))

\* a click on a select that leaves its value as it is
ClickSelect(field) ==
    /\ inputs' = inputs
    /\ SetPage(Dispatch("click", field, inputs, Page))

\* a click on an add-on checkbox: it toggles, then click and change are dispatched
ToggleAddOn(key) ==
    /\ inputs' = [inputs EXCEPT !.checked =
                    IF key \in @ THEN @ \ {key} ELSE @ \cup {key}]
    /\ SetPage(Dispatch("change", key, inputs',
                        Dispatch("click", key, inputs', Page)))

----------------------------------------------------------------------------
(* The specifications of the calculator *)

\* the history is kept only by the specification that compares evaluations
NoFirst == [inp |-> "none", out |-> BlankDisplay, fr |-> NewFrame, away |-> FALSE]

\* the parts of the state the calculator's handlers do not touch
NoSteps == pc = <<>> /\ frames = <<>> /\ raced = FALSE /\ overlap = FALSE
NoArticles == rendered = <<>>
\* a page without the testimonial track: initTestimonialCarousel returns at once
NoCarousel == carousel = [track |-> FALSE]
\* a page without .hero-stats and without .stat-number elements
NoStats ==
    stats = [observing |-> FALSE, animated |-> FALSE, starts |-> 0,
             counters |-> <<>>]
NoWidgets == NoArticles /\ NoCarousel /\ NoStats
FormOnly == UNCHANGED <<first, pc, frames, raced, overlap, rendered, carousel, stats>>

(* The page as shipped: every select offers the keys of its table *)

Init ==
    /\ InitForm(Forms([f \in SelectFields |-> TableOptions(f)], AddOnInputs))
    /\ first = NoFirst
    /\ NoSteps
    /\ NoWidgets

Next ==
    \/ \E f \in SelectFields : \E v \in TableOptions(f) :
            ChangeSelect(f, v) /\ FormOnly
    \/ \E f \in SelectFields : ClickSelect(f) /\ FormOnly
    \/ \E k \in AddOnInputs : ToggleAddOn(k) /\ FormOnly

Spec == Init /\ [][Next]_vars

(* A page whose markup offers, in each select, one option the tables do    *)
(* not list; two of the add-on boxes are clicked                           *)

MarkupAddOns == {"windows", "pets"}

InitMarkup ==
    /\ InitForm(Forms([f \in SelectFields |-> AllOptions(f)], MarkupAddOns))
    /\ first = NoFirst
    /\ NoSteps
    /\ NoWidgets

NextMarkup ==
    \/ \E f \in SelectFields : \E v \in AllOptions(f) :
            ChangeSelect(f, v) /\ FormOnly
    \/ \E f \in SelectFields : ClickSelect(f) /\ FormOnly
    \/ \E k \in MarkupAddOns : ToggleAddOn(k) /\ FormOnly

SpecMarkup == InitMarkup /\ [][NextMarkup]_vars

(* The shipped page on a few options, with the first evaluation remembered *)

FewOptions(field) ==
    CASE field = "propertyType" -> {"studio", "2bed"}
      [] field = "bathrooms" -> {"1", "2"}
      [] field = "serviceType" -> {"standard", "move"}
      [] field = "frequency" -> {"one-time", "weekly", "monthly"}

FewAddOns == {"fridge", "pets"}

\* the history: has a configuration other than the first been evaluated
Remember ==
    /\ first' = [first EXCEPT !.away = @ \/ inputs' # first.inp]
    /\ UNCHANGED <<pc, frames, raced, overlap, rendered, carousel, stats>>

InitRepeat ==
    /\ InitForm(Forms([f \in SelectFields |-> FewOptions(f)], FewAddOns))
    /\ first = [inp |-> inputs, out |-> display, fr |-> frame, away |-> FALSE]
    /\ NoSteps
    /\ NoWidgets

NextRepeat ==
    \/ \E f \in SelectFields : \E v \in FewOptions(f) :
            ChangeSelect(f, v) /\ Remember
    \/ \E f \in SelectFields : ClickSelect(f) /\ Remember
    \/ \E k \in FewAddOns : ToggleAddOn(k) /\ Remember

SpecRepeat == InitRepeat /\ [][NextRepeat]_vars

----------------------------------------------------------------------------
(* calculate() with its statements as separate steps, for evaluations that *)
(* overlap.  An evaluation stands at a source line (0: not running); the   *)
(* statements that touch only locals run with the read before them.        *)

NumEvals == 2

Evals == 1..NumEvals

StepOptions(field) ==
    CASE field = "propertyType" -> {"studio", "2bed"}
      [] field = "bathrooms" -> {"2"}
      [] field = "serviceType" -> {"deep"}
      [] field = "frequency" -> {"weekly"}

StepAddOns == {"pets"}

StepForms == Forms([f \in SelectFields |-> StepOptions(f)], StepAddOns)

Idle == [line |-> 0, k |-> 0]
At(line) == [line |-> line, k |-> 0]

AllIdle == \A e \in Evals : pc[e] = Idle

\* (mutant) the locals declared once, outside calculate(): every call uses
\* the same bindings
SharedLocals(e) == 1

\* the bindings a call of calculate() uses: its own
Locals(e) == e

\* an event of the given type on input reaches calculate: evaluation e begins
Begin(type, input, e) ==
    /\ pc[e] = Idle
    /\ type \in Listeners(input)
    /\ pc' = [pc EXCEPT ![e] = At(304)]
    /\ frames' = [frames EXCEPT ![Locals(e)] = NewFrame]
    /\ lastEvent' = type
    /\ overlap' = ~AllIdle
    /\ raced' = (~AllIdle /\ (raced \/ inputs' # inputs))
    /\ UNCHANGED <<display, frame, outcome, first, rendered, carousel, stats>>

\* a change event on a select while evaluations may be under way
StepChange(field, value, e) ==
    /\ value # inputs[field]
    /\ inputs' = [inputs EXCEPT ![field] = value]
    /\ Begin("change", field, e)

\* an event that leaves the form as it is: a click on a select, or the
\* change event that follows the click on a checkbox
StepClick(type, input, e) ==
    /\ inputs' = inputs
    /\ Begin(type, input, e)

\* a click on an add-on checkbox: it toggles and the click event is dispatched
StepToggle(key, e) ==
    /\ inputs' = [inputs EXCEPT !.checked =
                    IF key \in @ THEN @ \ {key} ELSE @ \cup {key}]
    /\ Begin("click", key, e)

\* the statement evaluation e stands at changes its locals to fr
Local(e, fr, next) ==
    /\ frames' = [frames EXCEPT ![Locals(e)] = fr]
    /\ pc' = [pc EXCEPT ![e] = next]
    /\ UNCHANGED <<inputs, display, frame, outcome, lastEvent, first, raced,
                   overlap, rendered, carousel, stats>>

\* the statement evaluation e stands at writes the display
Write(e, disp, next) ==
    /\ display' = disp
    /\ pc' = [pc EXCEPT ![e] = next]
    /\ UNCHANGED <<inputs, frames, frame, outcome, lastEvent, first, raced,
                   overlap, rendered, carousel, stats>>

Line304(e) ==
    /\ pc[e] = At(304)
    /\ Local(e, ReadBase(frames[Locals(e)], inputs), At(305))

Line305(e) ==
    /\ pc[e] = At(305)
    /\ Local(e, AddBathroom(frames[Locals(e)], inputs), At(307))

Line307(e) ==
    /\ pc[e] = At(307)
    /\ Local(e, ReadServiceAdj(frames[Locals(e)], inputs), At(308))

\* lines 308 and 311
Line308(e) ==
    /\ pc[e] = At(308)
    /\ Local(e, ResetAddOns(ReadFreqDiscount(frames[Locals(e)], inputs)),
             [line |-> 313, k |-> 1])

\* one iteration of the forEach; the last one runs on through line 329
Line313(e) ==
    /\ pc[e].line = 313
    /\ LET k == pc[e].k
           fr == AddOnStep(frames[Locals(e)], inputs, addOnKeys[k])
       IN  IF k < Len(addOnKeys)
           THEN Local(e, fr, [line |-> 313, k |-> k + 1])
           ELSE Local(e, LocalSteps(fr), At(332))

Line332(e) ==
    /\ pc[e] = At(332)
    /\ Write(e, ShowTotal(display, frames[Locals(e)]), At(333))

Line333(e) ==
    /\ pc[e] = At(333)
    /\ Write(e, ShowBase(display, inputs), At(334))

Line334(e) ==
    /\ pc[e] = At(334)
    /\ Write(e, ShowService(display, frames[Locals(e)]), At(335))

Line335(e) ==
    /\ pc[e] = At(335)
    /\ Write(e, ShowFrequency(display, frames[Locals(e)]), At(336))

\* the last statement: calculate() returns
Line336(e) ==
    /\ pc[e] = At(336)
    /\ display' = ShowAddOns(display, frames[Locals(e)])
    /\ frame' = frames[Locals(e)]
    /\ outcome' = "returned"
    /\ pc' = [pc EXCEPT ![e] = Idle]
    /\ UNCHANGED <<inputs, frames, lastEvent, first, raced, overlap, rendered, carousel, stats>>

InitSteps ==
    /\ InitForm(StepForms)
    /\ first = NoFirst
    /\ pc = [e \in Evals |-> Idle]
    /\ frames = [e \in Evals |-> NewFrame]
    /\ raced = FALSE
    /\ overlap = FALSE
    /\ NoWidgets

NextSteps ==
    \E e \in Evals :
        \/ \E f \in SelectFields : \E v \in StepOptions(f) : StepChange(f, v, e)
        \/ \E f \in SelectFields : StepClick("click", f, e)
        \/ \E k \in StepAddOns : StepClick("change", k, e)
        \/ \E k \in StepAddOns : StepToggle(k, e)
        \/ Line304(e)
        \/ Line305(e)
        \/ Line307(e)
        \/ Line308(e)
        \/ Line313(e)
        \/ Line332(e)
        \/ Line333(e)
        \/ Line334(e)
        \/ Line335(e)
        \/ Line336(e)

SpecSteps == InitSteps /\ [][NextSteps]_vars

----------------------------------------------------------------------------
(* What the specification of the pricing engine expects, computed from the *)
(* rate tables in integer arithmetic (dollars, and hundredths where said)  *)

ScenarioA ==
    [propertyType |-> "1bed", bathrooms |-> "1", serviceType |-> "standard",
     frequency |-> "one-time", checked |-> {}]

ScenarioB ==
    [propertyType |-> "2bed", bathrooms |-> "2", serviceType |-> "deep",
     frequency |-> "weekly", checked |-> {"windows", "pets"}]

ScenarioC ==
    [propertyType |-> "studio", bathrooms |-> "1", serviceType |-> "move",
     frequency |-> "monthly", checked |-> {"fridge"}]

RECURSIVE SumOfPrices(_)
SumOfPrices(keys) ==
    IF keys = {} THEN 0
    ELSE LET k == CHOOSE x \in keys : TRUE
         IN  addOnPrices[k] + SumOfPrices(keys \ {k})

ExpectedBase(inp) == basePrices[inp.propertyType] + bathroomPrices[inp.bathrooms]
ExpectedAdjustment(inp) == serviceAdjustments[inp.serviceType]
ExpectedAddOns(inp) == SumOfPrices(inp.checked)
\* in hundredths
ExpectedDiscount(inp) ==
    (ExpectedBase(inp) + ExpectedAdjustment(inp)) * frequencyDiscounts[inp.frequency]
\* in hundredths
ExpectedRawTotal(inp) ==
    (ExpectedBase(inp) + ExpectedAdjustment(inp) + ExpectedAddOns(inp)) * 100
        - ExpectedDiscount(inp)
\* h hundredths rounded to the nearest whole number, a half rounding up
RoundHalfUp(h) == (h + 50) \div 100

(* Reading a displayed amount back *)

IsDigit(c) == \E i \in 1..10 : Digit[i] = c
DigitValue(c) == (CHOOSE i \in 1..10 : Digit[i] = c) - 1

RECURSIVE DigitsValue(_)
DigitsValue(t) ==
    IF t = <<>> THEN 0
    ELSE 10 * DigitsValue(SubSeq(t, 1, Len(t) - 1)) + DigitValue(t[Len(t)])

\* t is the decimal numeral of a natural number
IsNumeral(t) ==
    /\ t # <<>>
    /\ \A i \in 1..Len(t) : IsDigit(t[i])
    /\ Len(t) > 1 => t[1] # "0"

HasPrefix(t, prefix) ==
    Len(t) >= Len(prefix) /\ SubSeq(t, 1, Len(prefix)) = prefix

AfterPrefix(t, prefix) == SubSeq(t, Len(prefix) + 1, Len(t))

\* the text t reads: prefix, then the whole number n
Shows(t, prefix, n) ==
    /\ HasPrefix(t, prefix)
    /\ LET r == AfterPrefix(t, prefix)
       IN  IF n >= 0
           THEN IsNumeral(r) /\ DigitsValue(r) = n
           ELSE /\ HasPrefix(r, <<"-">>)
                /\ IsNumeral(AfterPrefix(r, <<"-">>))
                /\ DigitsValue(AfterPrefix(r, <<"-">>)) = -n

\* the whole dollars a '$' text shows
AmountShown(t) == DigitsValue(AfterPrefix(t, <<"$">>))

SelectsUnchanged == \A f \in SelectFields : inputs'[f] = inputs[f]

----------------------------------------------------------------------------
(* The article list: ARTICLES_DB and renderArticles.  An article is its    *)
(* title, date, category tag and url; the icon and the excerpt are text    *)
(* that renderArticles copies into the card and are left out.              *)

Article(title, date, category, url) ==
    [title |-> title, date |-> date, category |-> category, url |-> url]

GenesisDay ==
    Article("Genesis Day", "2026-02-04", "Genesis",
            "/journey/2026-02-04-genesis-day.html")
TheTransformation ==
    Article("The Transformation", "2026-02-04", "Journey",
            "/journey/2026-02-04-transformation.html")
TemplatesPublished ==
    Article("Templates Published", "2026-02-04", "Templates",
            "/journey/2026-02-04-templates-published.html")
AITrendsReport ==
    Article("AI Trends Report", "2026-02-05", "AI Trends",
            "/blog/ai-trends-report.html")
BuildYourAIPowerhouse ==
    Article("Build Your AI Powerhouse", "2026-02-05", "Hardware",
            "/hardware-workstation/")
SparklingSolutions ==
    Article("Sparkling Solutions", "2026-02-04", "Business",
            "https://sparklingsolutions.biz")
BERepaired ==
    Article("BE Repaired", "2026-02-04", "Business",
            "https://be-repaired.b3rt.dev")

ARTICLES_DB ==
    [journey  |-> <<GenesisDay, TheTransformation, TemplatesPublished>>,
     tech     |-> <<AITrendsReport, BuildYourAIPowerhouse>>,
     business |-> <<SparklingSolutions, BERepaired>>,
     default  |-> <<GenesisDay, AITrendsReport, BuildYourAIPowerhouse,
                    TheTransformation>>]

\* the largest limit a page or a caller asks for
MaxLimit == 5

\* category names a page or a caller uses: the four lists, a name the
\* database does not have, and the empty name
Categories == {"journey", "tech", "business", "default", "news", ""}

\* data-limit as the markup gives it: text, <<>> where the attribute is
\* absent or empty
DataLimits == {<<>>} \cup {NatToText(n) : n \in 0..MaxLimit}

\* the number slice() makes of a data-limit text
RECURSIVE ToIntegerOrInfinity(_)
ToIntegerOrInfinity(t) ==
    IF t = <<>> THEN 0
    ELSE 10 * ToIntegerOrInfinity(SubSeq(t, 1, Len(t) - 1))
         + (CHOOSE i \in 1..10 : Digit[i] = t[Len(t)]) - 1

\* dataset.limit || 4
LimitOr4(t) == IF t = <<>> THEN 4 ELSE ToIntegerOrInfinity(t)

\* ARTICLES_DB[category] || ARTICLES_DB['default']
ArticlesOf(category) ==
    IF category \in DOMAIN ARTICLES_DB
    THEN ARTICLES_DB[category]
    ELSE ARTICLES_DB["default"]

\* articles.slice(0, limit)
Slice(articles, limit) ==
    SubSeq(articles, 1, IF limit < Len(articles) THEN limit ELSE Len(articles))

\* the containers of the page, and an id no element of the page has
Containers == {"dynamic-articles"}
ContainerIds == Containers \cup {"no-such-element"}

\* a container before anything is rendered into it: data-category is <<>>
\* where the element has no such attribute, <<c>> where it is c
Container(category, limit) ==
    [category |-> category, limit |-> limit, loaded |-> FALSE, asked |-> "",
     cards |-> <<>>]

\* renderArticles with its parameters filled in
renderArticles(containerId, category, limit) ==
    IF containerId \notin DOMAIN rendered
    THEN rendered
    ELSE [rendered EXCEPT
            ![containerId].loaded = TRUE,
            ![containerId].asked = category,
            ![containerId].cards = Slice(ArticlesOf(category), limit)]

\* the DOMContentLoaded handler: every element with data-category is filled
\* (the containers have distinct ids, so the iterations do not meet)
LoadContainers ==
    /\ rendered' =
         [c \in DOMAIN rendered |->
            IF rendered[c].category = <<>>
            THEN rendered[c]
            ELSE renderArticles(c, rendered[c].category[1],
                                LimitOr4(rendered[c].limit))[c]]
    /\ UNCHANGED <<formVars, first, stepVars, carousel, stats>>

\* window.loadArticles(containerId, ...args): category is 'default' and
\* limit is 4 where the call does not give them
loadArticles(containerId, args) ==
    /\ rendered' =
         renderArticles(containerId,
                        IF Len(args) >= 1 THEN args[1] ELSE "default",
                        IF Len(args) >= 2 THEN args[2] ELSE 4)
    /\ UNCHANGED <<formVars, first, stepVars, carousel, stats>>

CallArgs ==
    {<<>>} \cup {<<c>> : c \in Categories}
           \cup {<<c, n>> : c \in Categories, n \in 0..MaxLimit}

InitArticles ==
    /\ InitForm(StepForms)
    /\ first = NoFirst
    /\ NoSteps
    /\ NoCarousel
    /\ NoStats
    /\ rendered \in
         [Containers ->
            {Container(c, l) :
                c \in {<<>>} \cup {<<n>> : n \in Categories},
                l \in DataLimits}]

NextArticles ==
    \/ LoadContainers
    \/ \E id \in ContainerIds : \E args \in CallArgs : loadArticles(id, args)

SpecArticles == InitArticles /\ [][NextArticles]_vars

\* the articles of the database, and the cards a container shows
AllArticles ==
    UNION {{ARTICLES_DB[l][i] : i \in 1..Len(ARTICLES_DB[l])} :
              l \in DOMAIN ARTICLES_DB}
Shown(c) == {rendered[c].cards[i] : i \in 1..Len(rendered[c].cards)}

----------------------------------------------------------------------------
(* The testimonial carousel: the closure of initTestimonialCarousel on a   *)
(* page that has the track, both buttons, the dots container and at least  *)
(* one card.  carousel is a record:                                         *)
(*    cards         cards.length                                            *)
(*    innerWidth    window.innerWidth                                       *)
(*    cardsPerView, currentIndex, autoplay   the closure's variables        *)
(*    dots          the dots in the container: TRUE for class 'active'      *)
(*    translate     the track's translateX, in card widths                  *)
(*    timers        the interval timers that are live                       *)
(*    nextId        the id the next setInterval returns                     *)
(*    hover, op, from   history: the pointer entered the track and has not  *)
(*                  left it; the last event; currentIndex before it         *)

\* the most cards on the track, and the most timers ever started
MaxCards == 4
MaxTimers == 3

\* window widths: the two breakpoints and their neighbours
Widths == {767, 768, 1023, 1024}

getCardsPerView(innerWidth) ==
    IF innerWidth < 768 THEN 1
    ELSE IF innerWidth < 1024 THEN 2
    ELSE 3

\* Math.ceil(cards.length / cardsPerView)
TotalSlides(c) == (c.cards + c.cardsPerView - 1) \div c.cardsPerView

\* createDots(): one dot per slide, the one at currentIndex active
createDots(c) ==
    [c EXCEPT !.dots = [i \in 1..TotalSlides(c) |-> (i - 1) = c.currentIndex]]

\* updateCarousel(): the track is moved and 'active' toggled on every dot
updateCarousel(c) ==
    [c EXCEPT !.translate = c.currentIndex,
              !.dots = [i \in 1..Len(c.dots) |-> (i - 1) = c.currentIndex]]

\* (mutant) the index wrapped one slide late: '>' for '>='
goToSlideLate(c, index) ==
    updateCarousel(
        [c EXCEPT !.currentIndex =
            IF index > TotalSlides(c) THEN 0
            ELSE IF index < 0 THEN TotalSlides(c) - 1
            ELSE index])

goToSlide(c, index) ==
    updateCarousel(
        [c EXCEPT !.currentIndex =
            IF index >= TotalSlides(c) THEN 0
            ELSE IF index < 0 THEN TotalSlides(c) - 1
            ELSE index])

nextSlide(c) == goToSlide(c, c.currentIndex + 1)
prevSlide(c) == goToSlide(c, c.currentIndex - 1)

\* the resize handler
resized(c) ==
    IF getCardsPerView(c.innerWidth) # c.cardsPerView
    THEN updateCarousel(
            createDots([c EXCEPT !.cardsPerView = getCardsPerView(c.innerWidth),
                                 !.currentIndex = 0]))
    ELSE c

\* what an event leaves in the history fields
After(c, op, from) == [c EXCEPT !.op = op, !.from = from]

CarouselOnly == UNCHANGED <<formVars, first, stepVars, rendered, stats>>

ClickNext ==
    /\ carousel' = After(nextSlide(carousel), "next", carousel.currentIndex)
    /\ CarouselOnly

ClickPrev ==
    /\ carousel' = After(prevSlide(carousel), "prev", carousel.currentIndex)
    /\ CarouselOnly

\* a click on the dot created for slide i
ClickDot(i) ==
    /\ i \in 0..(Len(carousel.dots) - 1)
    /\ carousel' = After(goToSlide(carousel, i), "dot", carousel.currentIndex)
    /\ CarouselOnly

\* the interval timer t fires: nextSlide
AutoplayTick(t) ==
    /\ t \in carousel.timers
    /\ carousel' = After(nextSlide(carousel), "tick", carousel.currentIndex)
    /\ CarouselOnly

\* mouseenter on the track: clearInterval(autoplay)
MouseEnter ==
    /\ carousel' =
         After([carousel EXCEPT !.timers = carousel.timers \ {carousel.autoplay},
                                !.hover = TRUE],
               "mouseenter", carousel.currentIndex)
    /\ CarouselOnly

\* mouseleave on the track: autoplay = setInterval(nextSlide, 5000)
MouseLeave ==
    /\ carousel.nextId <= MaxTimers
    /\ carousel' =
         After([carousel EXCEPT !.timers = carousel.timers \cup {carousel.nextId},
                                !.autoplay = carousel.nextId,
                                !.nextId = carousel.nextId + 1,
                                !.hover = FALSE],
               "mouseleave", carousel.currentIndex)
    /\ CarouselOnly

\* the window is resized to another width
Resize(w) ==
    /\ w # carousel.innerWidth
    /\ carousel' =
         After(resized([carousel EXCEPT !.innerWidth = w]),
               "resize", carousel.currentIndex)
    /\ CarouselOnly

\* initTestimonialCarousel() on a page with n cards in a window w wide
NewCarousel(n, w) ==
    updateCarousel(
        createDots(
            [track |-> TRUE, cards |-> n, innerWidth |-> w,
             cardsPerView |-> getCardsPerView(w), currentIndex |-> 0,
             dots |-> <<>>, translate |-> 0,
             autoplay |-> 1, timers |-> {1}, nextId |-> 2,
             hover |-> FALSE, op |-> "init", from |-> 0]))

InitCarousel ==
    /\ InitForm(StepForms)
    /\ first = NoFirst
    /\ NoSteps
    /\ NoArticles
    /\ NoStats
    /\ carousel \in {NewCarousel(n, w) : n \in 1..MaxCards, w \in Widths}

NextCarousel ==
    \/ ClickNext
    \/ ClickPrev
    \/ \E i \in 0..(MaxCards - 1) : ClickDot(i)
    \/ \E t \in 1..MaxTimers : AutoplayTick(t)
    \/ MouseEnter
    \/ MouseLeave
    \/ \E w \in Widths : Resize(w)

SpecCarousel == InitCarousel /\ [][NextCarousel]_vars

----------------------------------------------------------------------------
(* The hero statistics: the closure of initHeroStats.  stats is a record:  *)
(*    observing   .hero-stats exists and the observer watches it            *)
(*    animated    the closure's flag                                        *)
(*    starts      history: how often animateStats() has run                 *)
(*    counters    per .stat-number element: its data-count text, the        *)
(*                locals target and current of its forEach iteration,       *)
(*                whether its interval timer is live, its textContent, and  *)
(*                history: the number it shows and the one it showed before *)
(*                the last tick (-1: none written yet)                      *)
(* current is kept exactly, as a count of steps: current = ticks * step     *)
(* with step = target / (duration / 16).  The code adds doubles: step is    *)
(* exact only when target is a multiple of duration / 16, and otherwise     *)
(* the sum, where the exact value is a whole number, may come out just      *)
(* below it or not; the model then allows both outcomes of the comparison   *)
(* and of Math.floor.  Numbers below 1000 are written without a grouping    *)
(* separator, so toLocaleString is the plain numeral for them.              *)

duration == 2000
TickMs == 16
\* duration / 16
Steps == duration \div TickMs

\* the largest of the small data-count values
MaxTarget == 2

StatNumbers == {"first", "second"}

\* data-count as the markup gives it: numerals of non-negative integers
DataCounts ==
    {NatToText(n) : n \in 0..MaxTarget} \cup {<<"9", "8">>, <<"2", "5", "0">>}

\* parseInt of a numeral
RECURSIVE parseInt(_)
parseInt(t) ==
    IF t = <<>> THEN 0
    ELSE 10 * parseInt(SubSeq(t, 1, Len(t) - 1))
         + (CHOOSE i \in 1..10 : Digit[i] = t[Len(t)]) - 1

toLocaleString(n) == NatToText(n)

\* a .stat-number element before the animation
StatNumber(dataCount) ==
    [dataCount |-> dataCount, target |-> 0, ticks |-> 0, live |-> FALSE,
     text |-> <<>>, shown |-> -1, before |-> -1]

\* one iteration of the forEach of animateStats: the locals and the timer
StartCounter(c) ==
    [c EXCEPT !.target = parseInt(c.dataCount), !.ticks = 0, !.live = TRUE]

\* (mutant) the flag is not consulted: if (entry.isIntersecting)
ShouldAnimateAgain(s, isIntersecting) == isIntersecting

\* entry.isIntersecting && !animated
ShouldAnimate(s, isIntersecting) == isIntersecting /\ ~s.animated

\* the addition of doubles may miss the whole number the exact sum is
Inexact(c) == c.target % Steps # 0

\* current >= target, for current = ticks * step: the outcomes it can have
ReachedTarget(c) ==
    IF c.ticks * c.target > Steps * c.target THEN {TRUE}
    ELSE IF c.ticks * c.target < Steps * c.target THEN {FALSE}
    ELSE IF Inexact(c) THEN {TRUE, FALSE}
    ELSE {TRUE}

\* Math.floor(current): the outcomes it can have
FloorOfCurrent(c) ==
    LET q == (c.ticks * c.target) \div Steps
    IN  IF (c.ticks * c.target) % Steps = 0 /\ Inexact(c)
        THEN {q, q - 1} \cap Nat
        ELSE {q}

Suffix(c) == IF c.dataCount = <<"9", "8">> THEN <<"%">> ELSE <<"+">>

StatsOnly == UNCHANGED <<formVars, first, stepVars, rendered, carousel>>

\* the observer's callback with one entry for .hero-stats
Intersect(isIntersecting) ==
    /\ stats.observing
    /\ stats' =
         IF ShouldAnimate(stats, isIntersecting)
         THEN [stats EXCEPT
                 !.animated = TRUE,
                 !.starts = stats.starts + 1,
                 !.counters = [s \in DOMAIN stats.counters |->
                                  StartCounter(stats.counters[s])]]
         ELSE stats
    /\ StatsOnly

\* the interval callback of one counter
StatTick(s) ==
    /\ stats.counters[s].live
    /\ \E c \in {[stats.counters[s] EXCEPT !.ticks = @ + 1]} :
       \E reached \in ReachedTarget(c) :
       \E floor \in FloorOfCurrent(c) :
          stats' =
            [stats EXCEPT !.counters[s] =
                IF reached
                THEN [c EXCEPT !.text = toLocaleString(c.target) \o Suffix(c),
                               !.live = FALSE,
                               !.before = c.shown,
                               !.shown = c.target]
                ELSE [c EXCEPT !.text = toLocaleString(floor),
                               !.before = c.shown,
                               !.shown = floor]]
    /\ StatsOnly

InitStats ==
    /\ InitForm({CHOOSE f \in StepForms : TRUE})
    /\ first = NoFirst
    /\ NoSteps
    /\ NoArticles
    /\ NoCarousel
    /\ stats \in
         [observing : BOOLEAN, animated : {FALSE}, starts : {0},
          counters : [StatNumbers -> {StatNumber(d) : d \in DataCounts}]]

NextStats ==
    \/ \E isIntersecting \in BOOLEAN : Intersect(isIntersecting)
    \/ \E s \in StatNumbers : StatTick(s)

SpecStats == InitStats /\ [][NextStats]_vars

\* setInterval keeps calling a live timer's callback
SpecStatsFair ==
    SpecStats /\ \A s \in StatNumbers : WF_vars(StatTick(s))

----------------------------------------------------------------------------
(* The claims *)

C2_UnknownKeyIsRejected ==
    [][~ValidConfig(inputs') =>
            /\ outcome' = "InvalidConfiguration"
            /\ display' = display]_vars

TablesInRange ==
    /\ \A k \in DOMAIN basePrices : basePrices[k] >= 0
    /\ \A k \in DOMAIN bathroomPrices : bathroomPrices[k] >= 0
    /\ \A k \in DOMAIN serviceAdjustments : serviceAdjustments[k] >= 0
    /\ \A k \in DOMAIN addOnPrices : addOnPrices[k] >= 0
    /\ \A k \in DOMAIN frequencyDiscounts :
            frequencyDiscounts[k] >= 0 /\ frequencyDiscounts[k] < 100

\* C6: with no negative table entry and discount rates in [0, 1), the
\* reported total of every valid configuration is greater than or equal to 0.
C6_TotalNotNegative ==
    (ValidConfig(inputs) /\ TablesInRange) =>
        /\ IsNum(frame.total) /\ frame.total.v >= 0
        /\ HasPrefix(display.total, <<"$">>)
        /\ IsNumeral(AfterPrefix(display.total, <<"$">>))

C6_CheapestDiscountedQuote ==
    /\ TablesInRange
    /\ lastEvent = "change"
    /\ inputs = [propertyType |-> "studio", bathrooms |-> "1",
                 serviceType |-> "standard", frequency |-> "weekly", checked |-> {}]
    /\ display.total = <<"$", "6", "2">>

\* C7: the quote is a function of the configuration alone: whenever the
\* configuration evaluated first is evaluated again, after any number of
\* evaluations of the same or of other configurations, the output is the one
\* the first evaluation gave.
C7_SameConfigurationSameQuote ==
    inputs = first.inp => (display = first.out /\ frame = first.fr)

C7_EvaluatedAgainAfterOthers ==
    /\ first.away
    /\ lastEvent # "init"
    /\ inputs = first.inp
    /\ inputs.checked = {"fridge", "pets"}
    /\ inputs.frequency = "monthly"
    /\ display = first.out

\* C8: after initialisation and after every change or click event on the
\* calculator's inputs, the five displayed fields are the quote of the
\* inputs' current values, never that of an earlier selection, and the
\* initial calculation has populated them before any event.
C8_DisplayShowsCurrentQuote ==
    /\ display = calculate(inputs, BlankDisplay).display
    /\ \A d \in DOMAIN display : display[d] # <<>>

C8_ShownAfterClick ==
    /\ lastEvent = "click"
    /\ inputs = [ScenarioA EXCEPT !.checked = {"laundry"}]
    /\ display.total = <<"$", "1", "0", "4">>
    /\ display.addOns = <<"$", "2", "5">>

C10_DefaultListsEveryArticle ==
    /\ \A a \in AllArticles :
          \E i \in 1..Len(ARTICLES_DB["default"]) : ARTICLES_DB["default"][i] = a
    /\ \A c \in DOMAIN rendered :
          ( /\ rendered[c].loaded
            /\ rendered[c].asked \notin {"journey", "tech", "business"}
            /\ Len(rendered[c].cards) = Len(ARTICLES_DB["default"]) )
          => Shown(c) = AllArticles

\* C11: for every configuration of the shipped rate tables the displayed
\* line items add up to the displayed total: total shown = base price shown
\* + service adjustment shown + add-ons shown - discount shown, although the
\* total and the discount are rounded independently.
C11_ItemsAddUpToTotal ==
    ValidConfig(inputs) =>
        AmountShown(display.total)
            = AmountShown(display.base)
              + DigitsValue(AfterPrefix(display.service, <<"+", "$">>))
              + AmountShown(display.addOns)
              - DigitsValue(AfterPrefix(display.frequency, <<"-", "$">>))

\* scenario B: discount 19.9 shown as 20, total 224.1 shown as 224
C11_BothRoundingsAct ==
    /\ inputs = ScenarioB
    /\ lastEvent = "change"
    /\ frame.discount = Num(1990)
    /\ frame.total = Num(22410)
    /\ display.base = <<"$", "1", "1", "9">>
    /\ display.service = <<"+", "$", "8", "0">>
    /\ display.addOns = <<"$", "4", "5">>
    /\ display.frequency = <<"-", "$", "2", "0">>
    /\ display.total = <<"$", "2", "2", "4">>

\* C12: in the carousel with at least one card, after any sequence of next,
\* previous, dot-click, autoplay-tick and resize events, 0 <= currentIndex <
\* ceil(cards / cardsPerView) for the current cardsPerView, the number of
\* dots is that slide count and exactly the dot at currentIndex is active;
\* next from the last slide wraps to slide 0 and previous from slide 0 wraps
\* to the last slide.
C12_IndexOnASlide ==
    carousel.track =>
        /\ carousel.cardsPerView = getCardsPerView(carousel.innerWidth)
        /\ carousel.currentIndex >= 0
        /\ carousel.currentIndex < TotalSlides(carousel)
        /\ Len(carousel.dots) = TotalSlides(carousel)
        /\ \A i \in 1..Len(carousel.dots) :
              carousel.dots[i] <=> (i - 1 = carousel.currentIndex)
        /\ (carousel.op \in {"next", "tick"}
                /\ carousel.from = TotalSlides(carousel) - 1)
            => carousel.currentIndex = 0
        /\ (carousel.op \in {"next", "tick"}
                /\ carousel.from < TotalSlides(carousel) - 1)
            => carousel.currentIndex = carousel.from + 1
        /\ (carousel.op = "prev" /\ carousel.from = 0)
            => carousel.currentIndex = TotalSlides(carousel) - 1

\* four cards two to a view: previous from slide 0 lands on slide 1
C12_WrappedBackToLastSlide ==
    /\ carousel.track
    /\ carousel.cards = 4
    /\ carousel.innerWidth = 1023
    /\ carousel.op = "prev"
    /\ carousel.from = 0
    /\ carousel.currentIndex = 1
    /\ carousel.dots = <<FALSE, TRUE>>

\* C13: after any sequence of mouseenter and mouseleave events on the track,
\* in any order, at most one autoplay interval timer is live, and after a
\* mouseenter no autoplay tick advances the carousel until the next
\* mouseleave.
C13_OneTimerStoppedWhileHovering ==
    carousel.track =>
        /\ Cardinality(carousel.timers) <= 1
        /\ ~(carousel.hover /\ carousel.op = "tick")

\* C14: the hero statistics animation starts at most once however often the
\* stats block enters the viewport; for every counter whose data-count is a
\* non-negative integer the interval timer eventually clears itself, after
\* which the counter shows exactly the target with its suffix; the number
\* shown is never above the target and, while running, never decreases.
C14_CountsUpOnceToTarget ==
    /\ [](/\ stats.starts <= 1
          /\ \A s \in DOMAIN stats.counters :
                LET c == stats.counters[s]
                IN  /\ c.shown <= parseInt(c.dataCount)
                    /\ c.before <= c.shown
                    /\ (stats.animated /\ ~c.live) =>
                          /\ c.shown = parseInt(c.dataCount)
                          /\ c.text = NatToText(parseInt(c.dataCount))
                                         \o Suffix(c))
    /\ \A s \in StatNumbers :
          stats.animated ~> (stats.animated /\ ~stats.counters[s].live)

\* the 98 counter ran all its steps beside a counter that ended on its first
C14_CountedUpTo98Percent ==
    /\ stats.animated
    /\ stats.starts = 1
    /\ stats.counters["first"].dataCount = <<"9", "8">>
    /\ stats.counters["first"].ticks >= Steps
    /\ ~stats.counters["first"].live
    /\ stats.counters["first"].before = 97
    /\ stats.counters["first"].text = <<"9", "8", "%">>
    /\ stats.counters["second"].dataCount = <<"0">>
    /\ stats.counters["second"].text = <<"0", "+">>

============================================================================
